---- MODULE Spec2Model ----
(***************************************************************************)
(* Memorial candles: the synchronisation of the App component's local      *)
(* state (src/src/App.jsx) with the single JSON document kept in a GitHub  *)
(* Gist through GistService (src/unnamed/part_000, services/gistService).  *)
(*                                                                         *)
(* Every network call is three steps: the client issues the request, the   *)
(* server handles it (a GET reads the document, a PATCH replaces it) and   *)
(* the response reaches the client, whose continuation then runs.  The     *)
(* steps of different calls interleave freely.                             *)
(***************************************************************************)
EXTENDS Integers, Sequences, FiniteSets, TLC

VARIABLES
    remote,        \* the content of the gist file candles.json
    candles,       \* candles[c]: App state `candles` of client c
    nextId,        \* nextId[c]: App state `nextId`
    isLoading,     \* isLoading[c]: App state `isLoading`
    error,         \* error[c]: App state `error` ("" is null)
    skipNextPoll,  \* skipNextPoll[c]: the ref skipNextPoll.current
    hasToken,      \* hasToken[c]: GITHUB_TOKEN is set in the client's build
    initLoad,      \* initLoad[c]: the GET of loadInitialData
    polls,         \* polls[c]: the calls of pollForUpdates awaiting loadCandles
    muts,          \* muts[c]: the mutation handlers that have not returned
    mutationsLeft, \* mutations that may still start (bounds the model)
    failuresLeft,  \* requests that may still fail (bounds the model)
    writer,        \* history: the client whose PATCH wrote `remote` (0: none)
    assigned,      \* history: assigned[c], the ids addCandle of c has given out
    removedMax,    \* history: removedMax[c], the id c's latest handler removed
                   \* if that was the largest id on screen (0 otherwise)
    callBefore,    \* history: callBefore[c], what c held and what the gist held
                   \* when c's latest handler started, kept if that handler
                   \* is a removeCandle of an id found in neither
    getResp,       \* the response handed to loadCandles (SpecLoad)
    loadResult,    \* what loadCandles returned for getResp (SpecLoad)
    isPolling,        \* GistService.isPolling
    pollingInterval,  \* GistService.pollingInterval: a timer id (0 is null)
    pollingCallbacks, \* GistService.pollingCallbacks
    lastUpdated,      \* GistService.lastUpdated: an updated_at (0 is null)
    updatedAt,        \* the gist's updated_at on the server
    timers,           \* the ids of the setTimeout timers that are pending
    fetches,          \* the calls of poll awaiting their GET
    delivered,        \* history: what the latest poll that returned handed
                      \* to which callbacks
    lastPoll,         \* history: "running" once a poll has issued its GET,
                      \* "ok" or "failed" once a poll has returned
    callsLeft,        \* startPolling / stopPolling calls that may still be
                      \* made (bounds the model)
    loadCall          \* the loadCandles call made beside the polling loop:
                      \* where it is and what its GET was answered

vars == <<remote, candles, nextId, isLoading, error, skipNextPoll, hasToken,
          initLoad, polls, muts, mutationsLeft, failuresLeft, writer, assigned,
          removedMax, callBefore, getResp, loadResult, isPolling,
          pollingInterval, pollingCallbacks, lastUpdated, updatedAt, timers,
          fetches, delivered, lastPoll, callsLeft, loadCall>>

\* what the steps of loadInitialData and pollForUpdates leave alone
history == <<writer, assigned, removedMax, callBefore>>
probe == <<getResp, loadResult>>
\* the polling loop of GistService, which the App does not start
service == <<isPolling, pollingInterval, pollingCallbacks, lastUpdated,
             updatedAt, timers, fetches, delivered, lastPoll, callsLeft,
             loadCall>>
\* what the polling loop of GistService leaves alone
app == <<candles, nextId, isLoading, error, skipNextPoll, hasToken, initLoad,
         polls, muts, mutationsLeft, history, probe>>

----------------------------------------------------------------------------
(* Bounds of the model. *)

\* mutations started by the two clients of Spec together
MaxMutations == 2
\* mutations started by the one client of SpecSolo and SpecReliable
MaxSoloMutations == 2
\* requests that fail
MaxFailures == 1
\* calls of pollForUpdates of one client awaiting their GET
MaxPollsInFlight == 1
\* length of the arrays handed to loadCandles in SpecLoad
MaxLen == 2
\* calls of startPolling and stopPolling
MaxCalls == 4
\* times the gist is written while GistService polls it
MaxRevisions == 2

Clients == {1, 2}

\* the position Math.random gives a new candle, and the one a drag ends at
AddPositions == {<<10, 20>>}
MovePositions == {<<30, 40>>}
\* the names a user types
Names == {"Ann"}
\* the functions handed to startPolling
Callbacks == {"cb1", "cb2"}

----------------------------------------------------------------------------
(* Values. *)

Item(i, px, py, n) == [id |-> i, x |-> px, y |-> py, name |-> n]

\* JavaScript values that loadCandles can return and setCandles can hold
Arr(s) == [type |-> "array", items |-> s]
JsObject == [type |-> "object", items |-> << >>]
JsNumber == [type |-> "number", items |-> << >>]
JsNull == [type |-> "null", items |-> << >>]
JsTrue == [type |-> "true", items |-> << >>]
JsFalse == [type |-> "false", items |-> << >>]

\* the content of the file in the gist: `kind` tells what text it is
ArrayText(s) == [kind |-> "array", items |-> s]
ObjectText == [kind |-> "object", items |-> << >>]
NumberText == [kind |-> "number", items |-> << >>]
NullText == [kind |-> "null", items |-> << >>]
GarbageText == [kind |-> "garbage", items |-> << >>]
EmptyText == [kind |-> "empty", items |-> << >>]
NoFile == [kind |-> "absent", items |-> << >>]

\* JSON.stringify(data, null, 2) of an array of candles
JSONstringify(s) == ArrayText(s)

\* JSON.parse throws a SyntaxError on text that is not JSON
JSONparseThrows(text) == text.kind = "garbage"

\* JSON.parse of text that is JSON
JSONparse(text) ==
    CASE text.kind = "array" -> Arr(text.items)
      [] text.kind = "object" -> JsObject
      [] text.kind = "number" -> JsNumber
      [] OTHER -> JsNull

\* a response of GET /gists/{id}: status "ok" (2xx), "http" (non-2xx) or
\* "neterr" (fetch rejects); file is gist.files["candles.json"]
GetResponse(st, f) == [status |-> st, file |-> f]
NoResponse == [status |-> "none", file |-> NoFile]
FailStatus == {"http", "neterr"}

\* what an async call settles to: a value it resolves to, or a rejection
Resolved(v) == [thrown |-> FALSE, value |-> v]
Rejected == [thrown |-> TRUE, value |-> [type |-> "undefined", items |-> << >>]]
NotCalled == [thrown |-> FALSE, value |-> [type |-> "pending", items |-> << >>]]

\* GistService.loadCandles, from the response of the GET on.  Every error
\* thrown inside its try (fetch rejecting, the throw on !response.ok, the
\* SyntaxError of JSON.parse) is caught and [] is returned instead.
loadCandles(resp) ==
    IF resp.status # "ok" THEN Resolved(Arr(<< >>))
    ELSE IF resp.file.kind \in {"absent", "empty"} THEN Resolved(Arr(<< >>))
    ELSE IF JSONparseThrows(resp.file) THEN Resolved(Arr(<< >>))
    ELSE LET data == JSONparse(resp.file)
         IN  IF data.type = "null" THEN Resolved(Arr(<< >>)) ELSE Resolved(data)

\* GistService.saveCandles, from the response of the PATCH on (ok: 2xx).
\* It resolves to true or false and never rejects.
saveCandles(ok) == Resolved(IF ok THEN JsTrue ELSE JsFalse)

Ids(s) == {s[i].id : i \in 1..Len(s)}

Max(S) == CHOOSE m \in S : \A n \in S : n <= m

\* Math.max(...candles.map(c => c.id)) + 1, for a non-empty array
NextIdAfter(s) == Max(Ids(s)) + 1

DistinctIds(s) == \A i, j \in 1..Len(s) : i # j => s[i].id # s[j].id

\* the transform of a mutation, applied to an array of candles
Transform(kind, arg, s) ==
    CASE kind = "add" -> Append(s, arg)
      [] kind = "rename" ->
            [i \in 1..Len(s) |->
                IF s[i].id = arg.id THEN [s[i] EXCEPT !.name = arg.name] ELSE s[i]]
      [] kind = "move" ->
            [i \in 1..Len(s) |->
                IF s[i].id = arg.id
                THEN [s[i] EXCEPT !.x = arg.x, !.y = arg.y] ELSE s[i]]
      [] kind = "remove" -> SelectSeq(s, LAMBDA it : it.id # arg.id)

\* spreading or calling map/filter on what is not an array throws a TypeError
TransformThrows(v) == v.type # "array"

RemoveAt(s, i) == SubSeq(s, 1, i - 1) \o SubSeq(s, i + 1, Len(s))

----------------------------------------------------------------------------
(* The state after the App components have mounted: useState's initial     *)
(* values, and the GET of loadInitialData issued by the mount effect.      *)

Request(st, resp) == [st |-> st, resp |-> resp]

\* the collection, the gist's content and the error message at a call
NoCall == [called |-> FALSE, local |-> Arr(<< >>), remote |-> NoFile, error |-> ""]
Snapshot(c) ==
    [called |-> TRUE, local |-> candles[c], remote |-> remote, error |-> error[c]]

\* what a poll hands to the callbacks: nothing, to nobody
NoDelivery == [to |-> {}, candles |-> JsNull, updated |-> 0]

\* a loadCandles call beside the polling loop: the status and the updated_at
\* of the answer to its GET
LoadCall(st, status, u) == [st |-> st, status |-> status, updated |-> u]
NoLoad == LoadCall("none", "none", 0)

\* GistService's constructor, part_000 17-21; the gist has its first
\* updated_at
InitService ==
    /\ loadCall = NoLoad
    /\ isPolling = FALSE
    /\ pollingInterval = 0
    /\ pollingCallbacks = {}
    /\ updatedAt = 1
    /\ timers = {}
    /\ fetches = << >>
    /\ delivered = NoDelivery
    /\ lastPoll = "none"

InitClients ==
    /\ InitService
    /\ candles = [c \in Clients |-> Arr(<< >>)]
    /\ nextId = [c \in Clients |-> 1]
    /\ isLoading = [c \in Clients |-> TRUE]
    /\ error = [c \in Clients |-> ""]
    /\ skipNextPoll = [c \in Clients |-> FALSE]
    /\ initLoad = [c \in Clients |-> Request("sent", NoResponse)]
    /\ polls = [c \in Clients |-> << >>]
    /\ muts = [c \in Clients |-> << >>]
    /\ writer = 0
    /\ assigned = [c \in Clients |-> {}]
    /\ removedMax = [c \in Clients |-> 0]
    /\ callBefore = [c \in Clients |-> NoCall]
    /\ loadResult = NotCalled

\* what the gist holds when the Apps mount: an empty array, a candle saved
\* by an earlier session, or an object that some other tool wrote
StoredCandle == Item(1, 10, 20, "")
InitialRemote == {ArrayText(<< >>), ArrayText(<<StoredCandle>>), ObjectText}

Init ==
    /\ InitClients
    /\ remote = ArrayText(<< >>)
    /\ hasToken = [c \in Clients |-> TRUE]
    /\ mutationsLeft = MaxMutations
    /\ failuresLeft = MaxFailures
    /\ getResp = NoResponse
    /\ lastUpdated = 0
    /\ callsLeft = 0

\* the server's answer to a GET handled now
Serve(st) == GetResponse(st, IF st = "ok" THEN remote ELSE NoFile)

\* a request may still fail
MayFail(st) == st # "ok" => failuresLeft > 0
CountFailure(st) == failuresLeft' = IF st = "ok" THEN failuresLeft ELSE failuresLeft - 1

\* the App is on screen: not the loading screen, and candles.map renders
Rendered(c) == ~isLoading[c] /\ candles[c].type = "array"

----------------------------------------------------------------------------
(* loadInitialData, App.jsx 53-70 *)

LoadServe(c, st) ==
    /\ initLoad[c].st = "sent"
    /\ MayFail(st)
    /\ initLoad' = [initLoad EXCEPT ![c] = Request("replied", Serve(st))]
    /\ CountFailure(st)
    /\ UNCHANGED <<remote, candles, nextId, isLoading, error, skipNextPoll,
                   hasToken, polls, muts, mutationsLeft, history, probe, service>>

LoadReturn(c) ==
    /\ initLoad[c].st = "replied"
    /\ LET r == loadCandles(initLoad[c].resp)
           saved == r.value
       IN  IF r.thrown
           THEN /\ error' = [error EXCEPT ![c] = "Failed to load saved candles. Starting fresh."]
                /\ UNCHANGED <<candles, nextId>>
           ELSE /\ IF saved.type = "array" /\ Len(saved.items) > 0
                   THEN /\ candles' = [candles EXCEPT ![c] = saved]
                        /\ nextId' = [nextId EXCEPT ![c] = NextIdAfter(saved.items)]
                   ELSE UNCHANGED <<candles, nextId>>
                /\ UNCHANGED error
    /\ isLoading' = [isLoading EXCEPT ![c] = FALSE]
    /\ initLoad' = [initLoad EXCEPT ![c] = Request("done", NoResponse)]
    /\ UNCHANGED <<remote, skipNextPoll, hasToken, polls, muts, mutationsLeft,
                   failuresLeft, history, probe, service>>

----------------------------------------------------------------------------
(* pollForUpdates, App.jsx 18-48, called by setInterval every second *)

PollTick(c) ==
    /\ candles[c].type = "array"
    /\ IF skipNextPoll[c]
       THEN /\ skipNextPoll' = [skipNextPoll EXCEPT ![c] = FALSE]
            /\ UNCHANGED polls
       ELSE /\ Len(polls[c]) < MaxPollsInFlight
            /\ polls' = [polls EXCEPT ![c] = Append(@, Request("sent", NoResponse))]
            /\ UNCHANGED skipNextPoll
    /\ UNCHANGED <<remote, candles, nextId, isLoading, error, hasToken,
                   initLoad, muts, mutationsLeft, failuresLeft, history, probe, service>>

PollServe(c, i, st) ==
    /\ i \in 1..Len(polls[c])
    /\ polls[c][i].st = "sent"
    /\ MayFail(st)
    /\ polls' = [polls EXCEPT ![c][i] = Request("replied", Serve(st))]
    /\ CountFailure(st)
    /\ UNCHANGED <<remote, candles, nextId, isLoading, error, skipNextPoll,
                   hasToken, initLoad, muts, mutationsLeft, history, probe, service>>

\* a mutant of PollApply: the counter goes back to 1 with an empty collection
PollApplyResetting(c, remoteCandles) ==
    IF candles[c] # remoteCandles
    THEN /\ candles' = [candles EXCEPT ![c] = remoteCandles]
         /\ nextId' = [nextId EXCEPT ![c] =
                IF Len(remoteCandles.items) > 0
                THEN NextIdAfter(remoteCandles.items) ELSE 1]
    ELSE UNCHANGED <<candles, nextId>>

\* the updater handed to setCandles, App.jsx 30-42
PollApply(c, remoteCandles) ==
    IF candles[c] # remoteCandles
    THEN /\ candles' = [candles EXCEPT ![c] = remoteCandles]
         /\ IF Len(remoteCandles.items) > 0
            THEN nextId' = [nextId EXCEPT ![c] = NextIdAfter(remoteCandles.items)]
            ELSE UNCHANGED nextId
    ELSE UNCHANGED <<candles, nextId>>

PollReturn(c, i) ==
    /\ i \in 1..Len(polls[c])
    /\ polls[c][i].st = "replied"
    /\ LET r == loadCandles(polls[c][i].resp)
       IN  IF ~r.thrown /\ r.value.type = "array"
           THEN PollApply(c, r.value)
           ELSE UNCHANGED <<candles, nextId>>
    /\ polls' = [polls EXCEPT ![c] = RemoveAt(@, i)]
    /\ UNCHANGED <<remote, isLoading, error, skipNextPoll, hasToken, initLoad,
                   muts, mutationsLeft, failuresLeft, history, probe, service>>

----------------------------------------------------------------------------
(* The mutation handlers addCandle, updateCandleName, updateCandlePosition *)
(* and removeCandle, App.jsx 85-211.  A handler that has not returned is a *)
(* record: its kind, its arguments (arg: the new candle of an add; the id  *)
(* and the new name or position otherwise), the await it is at (pc), the   *)
(* response it waits for and its mergedCandles.  Two fields are history:   *)
(* base, the candles the gist held when the server handled the handler's   *)
(* first GET, and baseWriter, the client that had written them.            *)

Mutation(kind, arg) ==
    [kind |-> kind, arg |-> arg, pc |-> "load_sent", resp |-> NoResponse,
     merged |-> << >>, ok |-> FALSE, base |-> << >>, baseWriter |-> 0]

\* the part of a handler before its first await
Start(c, kind, arg) ==
    /\ Rendered(c)
    /\ mutationsLeft > 0
    /\ mutationsLeft' = mutationsLeft - 1
    /\ skipNextPoll' = [skipNextPoll EXCEPT ![c] = TRUE]
    /\ candles' = [candles EXCEPT ![c] = Arr(Transform(kind, arg, @.items))]
    /\ muts' = [muts EXCEPT ![c] = Append(@, Mutation(kind, arg))]
    /\ removedMax' = [removedMax EXCEPT ![c] =
            IF /\ kind = "remove"
               /\ arg.id \in Ids(candles[c].items)
               /\ arg.id = Max(Ids(candles[c].items))
            THEN arg.id ELSE 0]
    /\ callBefore' = [callBefore EXCEPT ![c] =
            IF /\ kind = "remove"
               /\ arg.id \notin Ids(candles[c].items) \cup Ids(remote.items)
               /\ muts[c] = << >>
            THEN Snapshot(c) ELSE NoCall]
    /\ UNCHANGED <<remote, isLoading, error, hasToken, initLoad, polls,
                   failuresLeft, writer, probe, service>>

\* a mutant of NewCandleId: the id derived from the candles on screen
NewCandleIdFromMax(c) ==
    IF candles[c].items = << >> THEN 1 ELSE NextIdAfter(candles[c].items)

\* the id of addCandle's newCandle: the state nextId, App.jsx 92-93
NewCandleId(c) == nextId[c]

\* addCandle, App.jsx 85-102
AddStart(c, pos) ==
    /\ Start(c, "add", Item(NewCandleId(c), pos[1], pos[2], ""))
    /\ nextId' = [nextId EXCEPT ![c] = @ + 1]
    /\ assigned' = [assigned EXCEPT ![c] = @ \cup {NewCandleId(c)}]

\* updateCandleName, App.jsx 128-135; the Candle shown calls it with its id
RenameStart(c, id, name) ==
    /\ id \in Ids(candles[c].items)
    /\ Start(c, "rename", Item(id, 0, 0, name))
    /\ UNCHANGED <<nextId, assigned>>

\* updateCandlePosition, App.jsx 158-165
MoveStart(c, id, pos) ==
    /\ id \in Ids(candles[c].items)
    /\ Start(c, "move", Item(id, pos[1], pos[2], ""))
    /\ UNCHANGED <<nextId, assigned>>

\* removeCandle, App.jsx 187-192
RemoveStart(c, id) ==
    /\ id \in Ids(candles[c].items)
    /\ Start(c, "remove", Item(id, 0, 0, ""))
    /\ UNCHANGED <<nextId, assigned>>

\* removeCandle called with an id that no candle of the collection has
RemoveAbsentStart(c, id) ==
    /\ id \notin Ids(candles[c].items)
    /\ Start(c, "remove", Item(id, 0, 0, ""))
    /\ UNCHANGED <<nextId, assigned>>

At(c, i, pc) == i \in 1..Len(muts[c]) /\ muts[c][i].pc = pc

\* the server handles the GET of one of the handler's loadCandles calls
ServeGet(c, i, st, from, to) ==
    /\ At(c, i, from)
    /\ MayFail(st)
    /\ muts' = [muts EXCEPT ![c][i].pc = to, ![c][i].resp = Serve(st),
                             ![c][i].base = IF from = "load_sent"
                                            THEN remote.items ELSE @,
                             ![c][i].baseWriter = IF from = "load_sent"
                                                  THEN writer ELSE @]
    /\ CountFailure(st)
    /\ UNCHANGED <<remote, candles, nextId, isLoading, error, skipNextPoll,
                   hasToken, initLoad, polls, mutationsLeft, history, probe, service>>

MutLoadServe(c, i, st) == ServeGet(c, i, st, "load_sent", "load_replied")

\* the message each handler's catch block hands to setError ("": none)
ErrorMessage(kind) ==
    CASE kind = "add" -> "Failed to save candle. Please try again."
      [] kind = "rename" -> "Failed to save name change. Please try again."
      [] kind = "remove" -> "Failed to remove candle. Please try again."
      [] OTHER -> ""

\* a handler's catch block up to its await: setError, then loadCandles again
Catch(c, i) ==
    /\ error' = [error EXCEPT ![c] =
                    IF ErrorMessage(muts[c][i].kind) = "" THEN @
                    ELSE ErrorMessage(muts[c][i].kind)]
    /\ muts' = [muts EXCEPT ![c][i].pc = "reload_sent", ![c][i].resp = NoResponse]
    /\ UNCHANGED <<candles, nextId, skipNextPoll>>

\* a mutant of HandlerReturns: a finally block that resets the flag
HandlerReturnsClearingFlag(c) ==
    skipNextPoll' = [skipNextPoll EXCEPT ![c] = FALSE]

\* a handler returns: none has a finally block, and neither the try nor the
\* catch block writes skipNextPoll.current
HandlerReturns(c) == skipNextPoll' = skipNextPoll

\* the end of a handler's try block: setCandles(mergedCandles), and for
\* addCandle setNextId(maxId + 1); the handler returns
Success(c, i, merged) ==
    /\ HandlerReturns(c)
    /\ candles' = [candles EXCEPT ![c] = Arr(merged)]
    /\ nextId' = IF muts[c][i].kind = "add"
                 THEN [nextId EXCEPT ![c] = NextIdAfter(merged)]
                 ELSE nextId
    /\ muts' = [muts EXCEPT ![c] = RemoveAt(@, i)]
    /\ UNCHANGED error

\* loadCandles has settled: the merge, then saveCandles up to its fetch
\* (without a token saveCandles returns false at once)
MutLoadReturn(c, i) ==
    /\ At(c, i, "load_replied")
    /\ LET m == muts[c][i]
           r == loadCandles(m.resp)
       IN  IF r.thrown \/ TransformThrows(r.value)
           THEN Catch(c, i)
           ELSE LET merged == Transform(m.kind, m.arg, r.value.items)
                IN  IF hasToken[c]
                    THEN /\ muts' = [muts EXCEPT ![c][i].pc = "save_sent",
                                                 ![c][i].resp = NoResponse,
                                                 ![c][i].merged = merged]
                         /\ UNCHANGED <<candles, nextId, error, skipNextPoll>>
                    ELSE IF saveCandles(FALSE).thrown
                         THEN Catch(c, i)
                         ELSE Success(c, i, merged)
    /\ UNCHANGED <<remote, isLoading, hasToken, initLoad, polls,
                   mutationsLeft, failuresLeft, history, probe, service>>

\* a mutant of SaveServe: the server applies the change to the content it
\* holds, not to the one the client fetched
SaveServeMerging(c, i, ok) ==
    /\ At(c, i, "save_sent")
    /\ ~ok => failuresLeft > 0
    /\ failuresLeft' = IF ok THEN failuresLeft ELSE failuresLeft - 1
    /\ remote' = IF ok
                 THEN JSONstringify(Transform(muts[c][i].kind, muts[c][i].arg,
                                              remote.items))
                 ELSE remote
    /\ writer' = IF ok THEN c ELSE writer
    /\ muts' = [muts EXCEPT ![c][i].pc = "save_replied", ![c][i].ok = ok]
    /\ UNCHANGED <<candles, nextId, isLoading, error, skipNextPoll, hasToken,
                   initLoad, polls, mutationsLeft, assigned, removedMax,
                   callBefore, probe, service>>

\* the server handles the PATCH: with a 2xx it replaces the file's content
SaveServe(c, i, ok) ==
    /\ At(c, i, "save_sent")
    /\ ~ok => failuresLeft > 0
    /\ failuresLeft' = IF ok THEN failuresLeft ELSE failuresLeft - 1
    /\ remote' = IF ok THEN JSONstringify(muts[c][i].merged) ELSE remote
    /\ writer' = IF ok THEN c ELSE writer
    /\ muts' = [muts EXCEPT ![c][i].pc = "save_replied", ![c][i].ok = ok]
    /\ UNCHANGED <<candles, nextId, isLoading, error, skipNextPoll, hasToken,
                   initLoad, polls, mutationsLeft, assigned, removedMax,
                   callBefore, probe, service>>

\* saveCandles has settled
SaveReturn(c, i) ==
    /\ At(c, i, "save_replied")
    /\ IF saveCandles(muts[c][i].ok).thrown
       THEN Catch(c, i)
       ELSE Success(c, i, muts[c][i].merged)
    /\ UNCHANGED <<remote, isLoading, hasToken, initLoad, polls,
                   mutationsLeft, failuresLeft, history, probe, service>>

\* the catch block's loadCandles
ReloadServe(c, i, st) == ServeGet(c, i, st, "reload_sent", "reload_replied")

\* the catch block's loadCandles has settled: setCandles(serverCandles)
ReloadReturn(c, i) ==
    /\ At(c, i, "reload_replied")
    /\ LET r == loadCandles(muts[c][i].resp)
       IN  IF r.thrown
           THEN UNCHANGED candles
           ELSE candles' = [candles EXCEPT ![c] = r.value]
    /\ muts' = [muts EXCEPT ![c] = RemoveAt(@, i)]
    /\ HandlerReturns(c)
    /\ UNCHANGED <<remote, nextId, isLoading, error, hasToken,
                   initLoad, polls, mutationsLeft, failuresLeft, history, probe, service>>

----------------------------------------------------------------------------

Statuses == {"ok"} \cup FailStatus
\* the handlers one client can have in flight, and the ids it can meet
Slots == 1..(MaxMutations + MaxSoloMutations)
PollSlots == 1..MaxPollsInFlight
IdSpace == 1..(MaxMutations + MaxSoloMutations + 1)
\* the calls of poll that can be in flight together
PollLoops == 1..MaxCalls
\* the ids removeCandle is called with when no candle has them: the stored
\* candle's id (removed before) and one that was never given out
RemovedIds == {StoredCandle.id, StoredCandle.id + 1}

\* the steps of client c outside the handlers' catch blocks
TryStep(c) ==
    \/ \E st \in Statuses : LoadServe(c, st)
    \/ LoadReturn(c)
    \/ PollTick(c)
    \/ \E i \in PollSlots, st \in Statuses : PollServe(c, i, st)
    \/ \E i \in PollSlots : PollReturn(c, i)
    \/ \E pos \in AddPositions : AddStart(c, pos)
    \/ \E id \in IdSpace, n \in Names : RenameStart(c, id, n)
    \/ \E id \in IdSpace, pos \in MovePositions : MoveStart(c, id, pos)
    \/ \E id \in IdSpace : RemoveStart(c, id)
    \/ \E i \in Slots, st \in Statuses : MutLoadServe(c, i, st)
    \/ \E i \in Slots : MutLoadReturn(c, i)
    \/ \E i \in Slots, ok \in BOOLEAN : SaveServe(c, i, ok)
    \/ \E i \in Slots : SaveReturn(c, i)

\* the steps of the catch blocks
CatchStep(c) ==
    \/ \E i \in Slots, st \in Statuses : ReloadServe(c, i, st)
    \/ \E i \in Slots : ReloadReturn(c, i)

\* two clients share a gist that holds an array (no handler reaches its
\* catch block then); requests may fail
Next == \E c \in Clients : TryStep(c)

Spec == Init /\ [][Next]_vars

\* one client alone on the gist (the other App never leaves its first
\* request); requests may fail
InitSolo ==
    /\ InitClients
    /\ remote \in InitialRemote
    /\ hasToken = [c \in Clients |-> TRUE]
    /\ mutationsLeft = MaxSoloMutations
    /\ failuresLeft = MaxFailures
    /\ getResp = NoResponse
    /\ lastUpdated = 0
    /\ callsLeft = 0

NextSolo == TryStep(1) \/ CatchStep(1)

SpecSolo == InitSolo /\ [][NextSolo]_vars

\* one client alone on a gist that holds an array, and no request fails
InitReliable ==
    /\ InitClients
    /\ remote \in {ArrayText(<< >>), ArrayText(<<StoredCandle>>)}
    /\ hasToken = [c \in Clients |-> TRUE]
    /\ mutationsLeft = MaxSoloMutations
    /\ failuresLeft = 0
    /\ getResp = NoResponse
    /\ lastUpdated = 0
    /\ callsLeft = 0

NextReliable == TryStep(1)

SpecReliable == InitReliable /\ [][NextReliable]_vars

\* the handler calls the user can make on a screen that shows items: each
\* is the kind and the argument of the Mutation it starts
LastCalls(items) ==
    {<<"add", Item(IF items = << >> THEN 1 ELSE NextIdAfter(items),
                   pos[1], pos[2], "")>> : pos \in AddPositions}
        \cup {<<"rename", Item(id, 0, 0, n)>> : id \in Ids(items), n \in Names}
        \cup {<<"move", Item(id, pos[1], pos[2], "")>> :
                    id \in Ids(items), pos \in MovePositions}
        \cup {<<"remove", Item(id, 0, 0, "")>> : id \in Ids(items)}

\* client 1 has loaded the gist and the user has just made the last call of
\* a handler: the handler has run up to its first await, no poll is in
\* flight
InitQuiet ==
    /\ InitService
    /\ remote \in {ArrayText(<< >>), ArrayText(<<StoredCandle>>)}
    /\ \E k \in LastCalls(remote.items) :
          /\ candles = [c \in Clients |->
                IF c = 1 THEN Arr(Transform(k[1], k[2], remote.items))
                         ELSE Arr(<< >>)]
          /\ muts = [c \in Clients |->
                IF c = 1 THEN <<Mutation(k[1], k[2])>> ELSE << >>]
          /\ nextId = [c \in Clients |->
                IF c = 1 /\ k[1] = "add" THEN k[2].id + 1
                ELSE IF c = 1 /\ remote.items # << >>
                     THEN NextIdAfter(remote.items) ELSE 1]
          /\ assigned = [c \in Clients |->
                IF c = 1 /\ k[1] = "add" THEN {k[2].id} ELSE {}]
          /\ removedMax = [c \in Clients |->
                IF c = 1 /\ k[1] = "remove" /\ k[2].id = Max(Ids(remote.items))
                THEN k[2].id ELSE 0]
    /\ isLoading = [c \in Clients |-> c # 1]
    /\ error = [c \in Clients |-> ""]
    /\ skipNextPoll = [c \in Clients |-> c = 1]
    /\ initLoad = [c \in Clients |->
            IF c = 1 THEN Request("done", NoResponse)
                     ELSE Request("sent", NoResponse)]
    /\ polls = [c \in Clients |-> << >>]
    /\ writer = 0
    /\ callBefore = [c \in Clients |-> NoCall]
    /\ loadResult = NotCalled
    /\ hasToken = [c \in Clients |-> TRUE]
    /\ mutationsLeft = MaxSoloMutations - 1
    /\ failuresLeft = 0
    /\ getResp = NoResponse
    /\ lastUpdated = 0
    /\ callsLeft = 0

\* no handler starts any more: the ticks of setInterval, the polls and the
\* rest of the last handler
NextQuiet ==
    \/ PollTick(1)
    \/ \E i \in PollSlots, st \in Statuses : PollServe(1, i, st)
    \/ \E i \in PollSlots : PollReturn(1, i)
    \/ \E i \in Slots, st \in Statuses : MutLoadServe(1, i, st)
    \/ \E i \in Slots : MutLoadReturn(1, i)
    \/ \E i \in Slots, ok \in BOOLEAN : SaveServe(1, i, ok)
    \/ \E i \in Slots : SaveReturn(1, i)

SpecQuiet == InitQuiet /\ [][NextQuiet]_vars

\* Math.random gives the candles of different clients different positions
PairPositions(c) == IF c = 1 THEN AddPositions ELSE MovePositions

\* the steps of a client that shares the gist with another one, outside the
\* handlers' catch blocks
PairStep(c) ==
    \/ \E st \in Statuses : LoadServe(c, st)
    \/ LoadReturn(c)
    \/ PollTick(c)
    \/ \E i \in PollSlots, st \in Statuses : PollServe(c, i, st)
    \/ \E i \in PollSlots : PollReturn(c, i)
    \/ \E pos \in PairPositions(c) : AddStart(c, pos)
    \/ \E id \in IdSpace, n \in Names : RenameStart(c, id, n)
    \/ \E id \in IdSpace : RemoveStart(c, id)
    \/ \E i \in Slots, st \in Statuses : MutLoadServe(c, i, st)
    \/ \E i \in Slots : MutLoadReturn(c, i)
    \/ \E i \in Slots, ok \in BOOLEAN : SaveServe(c, i, ok)
    \/ \E i \in Slots : SaveReturn(c, i)

\* two clients share a gist that holds an empty array, and no request fails
InitPair ==
    /\ InitClients
    /\ remote = ArrayText(<< >>)
    /\ hasToken = [c \in Clients |-> TRUE]
    /\ mutationsLeft = MaxMutations
    /\ failuresLeft = 0
    /\ getResp = NoResponse
    /\ lastUpdated = 0
    /\ callsLeft = 0

NextPair == \E c \in Clients : PairStep(c)

SpecPair == InitPair /\ [][NextPair]_vars

\* the steps of a client that only removes candles, with ids that it shows
\* and with ids that it does not
RemoveStep(c) ==
    \/ \E st \in Statuses : LoadServe(c, st)
    \/ LoadReturn(c)
    \/ PollTick(c)
    \/ \E i \in PollSlots, st \in Statuses : PollServe(c, i, st)
    \/ \E i \in PollSlots : PollReturn(c, i)
    \/ \E id \in IdSpace : RemoveStart(c, id)
    \/ \E id \in RemovedIds : RemoveAbsentStart(c, id)
    \/ \E i \in Slots, st \in Statuses : MutLoadServe(c, i, st)
    \/ \E i \in Slots : MutLoadReturn(c, i)
    \/ \E i \in Slots, ok \in BOOLEAN : SaveServe(c, i, ok)
    \/ \E i \in Slots : SaveReturn(c, i)

\* one client alone on a gist that holds an array, and no request fails
InitRemove ==
    /\ InitClients
    /\ remote \in {ArrayText(<< >>), ArrayText(<<StoredCandle>>)}
    /\ hasToken = [c \in Clients |-> TRUE]
    /\ mutationsLeft = MaxSoloMutations
    /\ failuresLeft = 0
    /\ getResp = NoResponse
    /\ lastUpdated = 0
    /\ callsLeft = 0

NextRemove == RemoveStep(1)

SpecRemove == InitRemove /\ [][NextRemove]_vars

\* the steps of a client whose build has no token: saveCandles returns
\* before its fetch, no PATCH is ever sent
ReadOnlyStep(c) ==
    \/ \E st \in Statuses : LoadServe(c, st)
    \/ LoadReturn(c)
    \/ PollTick(c)
    \/ \E i \in PollSlots, st \in Statuses : PollServe(c, i, st)
    \/ \E i \in PollSlots : PollReturn(c, i)
    \/ \E pos \in AddPositions : AddStart(c, pos)
    \/ \E id \in IdSpace, n \in Names : RenameStart(c, id, n)
    \/ \E id \in IdSpace, pos \in MovePositions : MoveStart(c, id, pos)
    \/ \E id \in IdSpace : RemoveStart(c, id)
    \/ \E i \in Slots, st \in Statuses : MutLoadServe(c, i, st)
    \/ \E i \in Slots : MutLoadReturn(c, i)

\* one client without a token (read-only mode) on a gist that holds an array;
\* no request fails
InitReadOnly ==
    /\ InitClients
    /\ remote \in {ArrayText(<< >>), ArrayText(<<StoredCandle>>)}
    /\ hasToken = [c \in Clients |-> FALSE]
    /\ mutationsLeft = MaxSoloMutations
    /\ failuresLeft = 0
    /\ getResp = NoResponse
    /\ lastUpdated = 0
    /\ callsLeft = 0

NextReadOnly == ReadOnlyStep(1)

SpecReadOnly == InitReadOnly /\ [][NextReadOnly]_vars

----------------------------------------------------------------------------
(* loadCandles as a function of the response of its GET. *)

Positions == AddPositions \cup MovePositions
Items ==
    {Item(i, pos[1], pos[2], n) : i \in 1..MaxLen, pos \in Positions,
                                  n \in Names \cup {""}}
Arrays == UNION {[1..n -> Items] : n \in 0..MaxLen}
Files ==
    {NoFile, EmptyText, GarbageText, NullText, ObjectText, NumberText}
        \cup {ArrayText(s) : s \in Arrays}
GetResponses ==
    {GetResponse("ok", f) : f \in Files}
        \cup {GetResponse(st, NoFile) : st \in FailStatus}

InitLoad ==
    /\ InitClients
    /\ remote = ArrayText(<< >>)
    /\ hasToken = [c \in Clients |-> TRUE]
    /\ mutationsLeft = 0
    /\ failuresLeft = 0
    /\ getResp \in GetResponses
    /\ lastUpdated = 0
    /\ callsLeft = 0

CallLoadCandles ==
    /\ loadResult = NotCalled
    /\ loadResult' = loadCandles(getResp)
    /\ UNCHANGED <<remote, candles, nextId, isLoading, error, skipNextPoll,
                   hasToken, initLoad, polls, muts, mutationsLeft,
                   failuresLeft, history, getResp, service>>

NextLoad == CallLoadCandles

SpecLoad == InitLoad /\ [][NextLoad]_vars

----------------------------------------------------------------------------
(* GistService.startPolling and stopPolling, part_000 144-215.  A call of   *)
(* poll is three steps like the other GETs; between two calls of poll its   *)
(* setTimeout timer is pending.                                            *)

\* what GET /gists/{id} answers to poll: the file and the gist's updated_at
GistResponse(st, f, u) == [status |-> st, file |-> f, updated |-> u]
NoGist == GistResponse("none", NoFile, 0)

\* the file as the gist can hold it while it is polled
PolledFiles ==
    {ArrayText(<< >>), ArrayText(<<StoredCandle>>), NoFile, GarbageText}

TimerIds == 1..(MaxCalls + 1)

\* the id setTimeout returns: one that no pending timer has and that
\* GistService does not hold
NewTimer ==
    CHOOSE t \in TimerIds :
        /\ t \notin timers \cup {pollingInterval}
        /\ \A u \in TimerIds : u \notin timers \cup {pollingInterval} => t <= u

\* poll up to its await: the GET is sent
poll ==
    /\ fetches' = Append(fetches, Request("sent", NoGist))
    /\ lastPoll' = "running"

\* startPolling(callback), part_000 144-189
startPolling(cb) ==
    /\ callsLeft > 0
    /\ callsLeft' = callsLeft - 1
    /\ pollingCallbacks' = pollingCallbacks \cup {cb}
    /\ IF isPolling
       THEN UNCHANGED <<isPolling, fetches, lastPoll>>
       ELSE /\ isPolling' = TRUE
            /\ poll
    /\ UNCHANGED <<pollingInterval, lastUpdated, updatedAt, timers, delivered,
                   remote, failuresLeft, loadCall, app>>

\* clearTimeout(this.pollingInterval); this.pollingInterval = null
ClearPollingInterval ==
    IF pollingInterval # 0
    THEN /\ timers' = timers \ {pollingInterval}
         /\ pollingInterval' = 0
    ELSE UNCHANGED <<timers, pollingInterval>>

\* a mutant of stopPolling: removing the last callback leaves isPolling set
stopPollingKeepingFlag(cb) ==
    /\ callsLeft > 0
    /\ callsLeft' = callsLeft - 1
    /\ pollingCallbacks' = pollingCallbacks \ {cb}
    /\ IF pollingCallbacks \ {cb} = {}
       THEN /\ isPolling' = isPolling
            /\ ClearPollingInterval
       ELSE UNCHANGED <<isPolling, timers, pollingInterval>>
    /\ UNCHANGED <<lastUpdated, updatedAt, fetches, delivered, lastPoll,
                   remote, failuresLeft, loadCall, app>>

\* stopPolling(callback), part_000 195-205
stopPolling(cb) ==
    /\ callsLeft > 0
    /\ callsLeft' = callsLeft - 1
    /\ pollingCallbacks' = pollingCallbacks \ {cb}
    /\ IF pollingCallbacks \ {cb} = {}
       THEN /\ isPolling' = FALSE
            /\ ClearPollingInterval
       ELSE UNCHANGED <<isPolling, timers, pollingInterval>>
    /\ UNCHANGED <<lastUpdated, updatedAt, fetches, delivered, lastPoll,
                   remote, failuresLeft, loadCall, app>>

\* stopPolling(), part_000 206-214
stopPollingAll ==
    /\ callsLeft > 0
    /\ callsLeft' = callsLeft - 1
    /\ isPolling' = FALSE
    /\ pollingCallbacks' = {}
    /\ ClearPollingInterval
    /\ UNCHANGED <<lastUpdated, updatedAt, fetches, delivered, lastPoll,
                   remote, failuresLeft, loadCall, app>>

\* a call that passes no callback: the parameter is undefined
Undefined == "undefined"
CallArgs == Callbacks \cup {Undefined}

\* stopPolling called with any argument: undefined takes the default null,
\* and `if (callback)` sends it to the else branch, part_000 195-196
stopPollingCall(cb) ==
    IF cb = Undefined THEN stopPollingAll ELSE stopPolling(cb)

\* a timer set by poll fires: poll runs again
TimerFires(t) ==
    /\ t \in timers
    /\ timers' = timers \ {t}
    /\ poll
    /\ UNCHANGED <<isPolling, pollingInterval, pollingCallbacks, lastUpdated,
                   updatedAt, delivered, callsLeft, remote, failuresLeft, loadCall, app>>

\* the server handles the GET of a poll
PollFetchServe(i, st) ==
    /\ i \in 1..Len(fetches)
    /\ fetches[i].st = "sent"
    /\ MayFail(st)
    /\ CountFailure(st)
    /\ fetches' = [fetches EXCEPT ![i] =
            Request("replied",
                    GistResponse(st, IF st = "ok" THEN remote ELSE NoFile,
                                 IF st = "ok" THEN updatedAt ELSE 0))]
    /\ UNCHANGED <<isPolling, pollingInterval, pollingCallbacks, lastUpdated,
                   updatedAt, timers, delivered, lastPoll, callsLeft, remote, loadCall, app>>

\* the poll's try block throws: fetch rejected, or JSON.parse of the content
\* of a gist it found updated
PollThrows(r) ==
    \/ r.status = "neterr"
    \/ /\ r.status = "ok"
       /\ lastUpdated # 0 /\ r.updated # lastUpdated
       /\ r.file.kind \notin {"absent", "empty"}
       /\ JSONparseThrows(r.file)

\* the poll fetched nothing it can use: it threw, or the response is not ok
PollFailed(r) == PollThrows(r) \/ r.status # "ok"

\* the poll calls every callback with the candles it parsed
PollNotifies(r) ==
    /\ r.status = "ok"
    /\ lastUpdated # 0 /\ r.updated # lastUpdated
    /\ r.file.kind \notin {"absent", "empty"}
    /\ ~JSONparseThrows(r.file)

\* a mutant of ScheduleNext: a poll that failed does not set the next timer
ScheduleNextUnlessFailed(failed) ==
    IF isPolling /\ ~failed
    THEN /\ timers' = timers \cup {NewTimer}
         /\ pollingInterval' = NewTimer
    ELSE UNCHANGED <<timers, pollingInterval>>

\* the end of poll, after its try and catch, part_000 182-184
ScheduleNext(failed) ==
    IF isPolling
    THEN /\ timers' = timers \cup {NewTimer}
         /\ pollingInterval' = NewTimer
    ELSE UNCHANGED <<timers, pollingInterval>>

\* the response reaches poll, part_000 159-184
PollFetchReturn(i) ==
    /\ i \in 1..Len(fetches)
    /\ fetches[i].st = "replied"
    /\ LET r == fetches[i].resp
       IN  /\ delivered' = IF PollNotifies(r)
                           THEN [to |-> pollingCallbacks,
                                 candles |-> JSONparse(r.file),
                                 updated |-> r.updated]
                           ELSE NoDelivery
           /\ lastUpdated' = IF r.status = "ok" /\ ~PollThrows(r)
                             THEN r.updated ELSE lastUpdated
           /\ lastPoll' = IF PollFailed(r) THEN "failed" ELSE "ok"
           /\ ScheduleNext(PollFailed(r))
    /\ fetches' = RemoveAt(fetches, i)
    /\ UNCHANGED <<isPolling, pollingCallbacks, updatedAt, callsLeft, remote,
                   failuresLeft, loadCall, app>>

\* somebody writes the gist: its content and its updated_at change
GistUpdated(f) ==
    /\ updatedAt <= MaxRevisions
    /\ f # remote
    /\ remote' = f
    /\ updatedAt' = updatedAt + 1
    /\ UNCHANGED <<isPolling, pollingInterval, pollingCallbacks, lastUpdated,
                   timers, fetches, delivered, lastPoll, callsLeft,
                   failuresLeft, loadCall, app>>

\* GistService with its polling loop; lastUpdated is null, or the updated_at
\* that an earlier loadCandles has stored (part_000 41)
InitPolling ==
    /\ InitClients
    /\ remote = ArrayText(<<StoredCandle>>)
    /\ hasToken = [c \in Clients |-> TRUE]
    /\ mutationsLeft = 0
    /\ failuresLeft = MaxFailures
    /\ getResp = NoResponse
    /\ lastUpdated \in {0, 1}
    /\ callsLeft = MaxCalls

PollSteps ==
    \/ \E t \in TimerIds : TimerFires(t)
    \/ \E i \in PollLoops, st \in Statuses : PollFetchServe(i, st)
    \/ \E i \in PollLoops : PollFetchReturn(i)

NextPolling ==
    \/ \E cb \in Callbacks : startPolling(cb)
    \/ \E cb \in Callbacks : stopPolling(cb)
    \/ stopPollingAll
    \/ PollSteps
    \/ \E f \in PolledFiles : GistUpdated(f)

SpecPolling == InitPolling /\ [][NextPolling]_vars

\* loadCandles is called while the loop polls (a handler's re-read, a
\* rollback's re-fetch), part_000 29-33
LoadCandlesCall ==
    /\ loadCall.st = "none"
    /\ callsLeft > 0
    /\ callsLeft' = callsLeft - 1
    /\ loadCall' = LoadCall("sent", "none", 0)
    /\ UNCHANGED <<isPolling, pollingInterval, pollingCallbacks, lastUpdated,
                   updatedAt, timers, fetches, delivered, lastPoll, remote,
                   failuresLeft, app>>

\* the server handles the GET of loadCandles
LoadCandlesServe(st) ==
    /\ loadCall.st = "sent"
    /\ MayFail(st)
    /\ CountFailure(st)
    /\ loadCall' = LoadCall("replied", st, IF st = "ok" THEN updatedAt ELSE 0)
    /\ UNCHANGED <<isPolling, pollingInterval, pollingCallbacks, lastUpdated,
                   updatedAt, timers, fetches, delivered, lastPoll, callsLeft,
                   remote, app>>

\* the response reaches loadCandles: this.lastUpdated = gist.updated_at,
\* part_000 35-41
LoadCandlesReturn ==
    /\ loadCall.st = "replied"
    /\ lastUpdated' = IF loadCall.status = "ok" THEN loadCall.updated
                      ELSE lastUpdated
    /\ loadCall' = NoLoad
    /\ UNCHANGED <<isPolling, pollingInterval, pollingCallbacks, updatedAt,
                   timers, fetches, delivered, lastPoll, callsLeft, remote,
                   failuresLeft, app>>

\* the file as the gist holds it when the App writes it
WatchedFiles == {ArrayText(<< >>), ArrayText(<<StoredCandle>>)}

\* the loop polls for its callbacks, none of which is removed, while the gist
\* is written and loadCandles is called; no request fails, and lastUpdated
\* is the updated_at that the App's first loadCandles has stored
InitWatch ==
    /\ InitClients
    /\ remote = ArrayText(<<StoredCandle>>)
    /\ hasToken = [c \in Clients |-> TRUE]
    /\ mutationsLeft = 0
    /\ failuresLeft = 0
    /\ getResp = NoResponse
    /\ lastUpdated = 1
    /\ callsLeft = MaxCalls

\* the gist is written while callbacks are registered
WatchedUpdate(f) == pollingCallbacks # {} /\ GistUpdated(f)

LoopSteps ==
    \/ \E cb \in Callbacks : startPolling(cb)
    \/ PollSteps
    \/ \E f \in WatchedFiles : WatchedUpdate(f)

LoadCandlesSteps ==
    \/ LoadCandlesCall
    \/ \E st \in Statuses : LoadCandlesServe(st)
    \/ LoadCandlesReturn

NextWatch == LoopSteps \/ LoadCandlesSteps

SpecWatch == InitWatch /\ [][NextWatch]_vars

\* a pending timer fires and a GET that was sent is answered
SpecWatchFair ==
    /\ SpecWatch
    /\ WF_vars(\E t \in TimerIds : TimerFires(t))
    /\ WF_vars(\E i \in PollLoops : PollFetchServe(i, "ok"))
    /\ WF_vars(\E i \in PollLoops : PollFetchReturn(i))

\* the loop without the loadCandles calls
SpecLoopFair ==
    /\ InitWatch /\ [][LoopSteps]_vars
    /\ WF_vars(\E t \in TimerIds : TimerFires(t))
    /\ WF_vars(\E i \in PollLoops : PollFetchServe(i, "ok"))
    /\ WF_vars(\E i \in PollLoops : PollFetchReturn(i))

\* GistService called with and without a callback; startPolling adds what it
\* is given to the Set, undefined included (part_000 146, 150)
NextCalls ==
    \/ \E cb \in CallArgs : startPolling(cb)
    \/ \E cb \in CallArgs : stopPollingCall(cb)
    \/ PollSteps
    \/ \E f \in PolledFiles : GistUpdated(f)

SpecCalls == InitPolling /\ [][NextCalls]_vars

\* a pending timer fires and a GET that was sent is answered
SpecPollingFair ==
    /\ SpecPolling
    /\ WF_vars(\E t \in TimerIds : TimerFires(t))
    /\ WF_vars(\E i \in PollLoops : PollFetchServe(i, "ok"))
    /\ WF_vars(\E i \in PollLoops : PollFetchReturn(i))

----------------------------------------------------------------------------
(* The claims. *)

\* handler i of client c returns in this step
Completes(c, i) == i \in 1..Len(muts[c]) /\ muts'[c] = RemoveAt(muts[c], i)

\* a call of pollForUpdates of client c gets its answer in this step
PollReturns(c) == Len(polls'[c]) < Len(polls[c])

\* a handler of client c starts in this step
Starts(c) == Len(muts'[c]) = Len(muts[c]) + 1
Started(c) == muts'[c][Len(muts'[c])]

\* C1: within one client no poll replaces the local collection while a
\* mutation of that client is between its start and its completion.
C1_NoPollReplaceDuringMutation ==
    [][\A c \in Clients :
        (PollReturns(c) /\ candles'[c] # candles[c]) => muts[c] = << >>]_vars

\* C2: when the write of a mutation failed and the re-fetch that follows
\* succeeds, the local collection is the remote document's content when the
\* mutation completes, not the merged state holding the unsaved change.
C2_RollbackAfterFailedWrite ==
    [][\A c \in Clients : \A i \in Slots :
        (/\ Completes(c, i)
         /\ muts[c][i].pc \in {"save_replied", "reload_replied"}
         /\ ~muts[c][i].ok
         /\ ~(muts[c][i].pc = "reload_replied" /\ muts[c][i].resp.status # "ok"))
        => candles'[c] = JSONparse(remote')]_vars

\* C3: with one client and a store whose requests all succeed, once every
\* mutation that was started has completed the local collection equals the
\* remote document's content.
C3_LocalEqualsRemoteWhenQuiet ==
    (mutationsLeft < MaxSoloMutations /\ muts[1] = << >>)
        => candles[1] = JSONparse(remote)

\* the candle a handler changes or removes (addCandle targets none)
Targets(m, it) == m.kind # "add" /\ it.id = m.arg.id

\* C4: the document a mutation writes is its transform of the collection the
\* gist held at the mutation's own re-fetch: every candle that another client
\* had written to the gist by then, and that the mutation does not target,
\* is in the written document.
C4_WriteKeepsOthersCandles ==
    \A c \in Clients : \A i \in Slots :
        (At(c, i, "save_sent") /\ muts[c][i].baseWriter \notin {0, c}) =>
            LET m == muts[c][i]
            IN  \A k \in 1..Len(m.base) :
                    ~Targets(m, m.base[k]) =>
                        \E j \in 1..Len(m.merged) : m.merged[j] = m.base[k]

\* C5: all ids inside a client's local collection are pairwise distinct, also
\* when two clients that share the gist add candles.
C5_LocalIdsDistinct ==
    \A c \in Clients :
        candles[c].type = "array" => DistinctIds(candles[c].items)

C7_FailedGetIsSignalled ==
    (loadResult # NotCalled /\ getResp.status \in FailStatus)
        => /\ loadResult.thrown
           /\ loadResult # loadCandles(GetResponse("ok", ArrayText(<< >>)))

\* C8: loadCandles returns the empty collection when the file is absent, its
\* content is empty or its content is not an array of candles, and it never
\* returns a value that is not a collection.
C8_MalformedContentIsEmpty ==
    loadResult # NotCalled =>
        /\ ~loadResult.thrown
        /\ loadResult.value.type = "array"
        /\ (getResp.status = "ok" /\ getResp.file.kind # "array")
                => loadResult.value = Arr(<< >>)

\* C9 as the spec states it: after a client removed the candle with the
\* largest id and the remove has completed, the candle it adds next gets
\* (largest remaining id) + 1, or 1 when none remains.
C9_NewIdIsMaxRemainingPlusOne ==
    [][\A c \in Clients :
        (/\ removedMax[c] # 0
         /\ muts[c] = << >>
         /\ Starts(c)
         /\ Started(c).kind = "add")
        => Started(c).arg.id = NewCandleIdFromMax(c)]_vars

\* C9, amended: removeCandle leaves the id counter alone when it starts and
\* when it returns, and the candle added after the remove gets the
\* counter's value as its id.
C9_NewIdIsCounterKeptByRemove ==
    [][\A c \in Clients :
        /\ (Starts(c) /\ Started(c).kind = "remove") => nextId'[c] = nextId[c]
        /\ \A i \in Slots :
              (Completes(c, i) /\ muts[c][i].kind = "remove")
                  => nextId'[c] = nextId[c]
        /\ (removedMax[c] # 0 /\ Starts(c) /\ Started(c).kind = "add")
              => Started(c).arg.id = nextId[c]]_vars

\* the stored candle 1 was removed and the candle added next has id 2
C9_AddAfterRemoveGotCounter ==
    /\ mutationsLeft = 0
    /\ remote = ArrayText(<< >>)
    /\ Len(muts[1]) = 1
    /\ muts[1][1].kind = "add"
    /\ muts[1][1].arg.id = 2
    /\ candles[1] = Arr(<<muts[1][1].arg>>)
    /\ assigned[1] = {2}

\* C10: an id that a client gave to a candle it created is never given by
\* that client to a candle it creates later.
C10_IdsNeverReused ==
    [][\A c \in Clients :
        (Starts(c) /\ Started(c).kind = "add")
            => Started(c).arg.id \notin assigned[c]]_vars

\* the continuation of loadInitialData runs in this step
LoadInstalls(c) == initLoad[c].st = "replied" /\ initLoad'[c].st = "done"

\* C11 as the spec states it: after every replacement of the local collection
\* (initial load, a handler's setCandles on success or rollback, a poll that
\* applies a change) the id counter is (largest id of the new collection) + 1,
\* and 1 when the new collection is empty.
C11_CounterIsMaxPlusOne ==
    [][\A c \in Clients :
        (/\ \/ LoadInstalls(c)
            \/ \E i \in Slots : Completes(c, i)
            \/ PollReturns(c) /\ candles'[c] # candles[c]
         /\ candles'[c].type = "array")
        => nextId'[c] = IF candles'[c].items = << >> THEN 1
                        ELSE NextIdAfter(candles'[c].items)]_vars

\* C11, amended: the counter is recomputed as (largest id) + 1 only when the
\* initial load or a poll installs a non-empty collection and when addCandle
\* succeeds; a poll that installs the empty collection, the end of a rename,
\* move or remove, and every rollback leave the counter as it was.
C11_CounterRecomputedOnlyForNonEmpty ==
    [][\A c \in Clients :
        /\ LoadInstalls(c) =>
              /\ candles'[c] # candles[c]
                    => nextId'[c] = NextIdAfter(candles'[c].items)
              /\ candles'[c].items = << >> => nextId'[c] = nextId[c]
        /\ PollReturns(c) =>
              nextId'[c] = IF candles'[c] # candles[c] /\ candles'[c].items # << >>
                           THEN NextIdAfter(candles'[c].items)
                           ELSE nextId[c]
        /\ \A i \in Slots :
              Completes(c, i) =>
                  nextId'[c] = IF /\ muts[c][i].kind = "add"
                                  /\ muts[c][i].pc \in {"load_replied", "save_replied"}
                               THEN NextIdAfter(candles'[c].items)
                               ELSE nextId[c]]_vars

\* an add is in flight, a poll has replaced the collection by the empty one
\* and the counter is still the one the add left
C11_EmptyInstalledCounterKept ==
    /\ Len(muts[1]) = 1
    /\ muts[1][1].kind = "add"
    /\ muts[1][1].arg.id = 1
    /\ polls[1] = << >>
    /\ candles[1] = Arr(<< >>)
    /\ nextId[1] = 2

\* C19: when a mutation's write failed and no re-fetch succeeded after it,
\* the handler leaves the optimistic collection in place and an error is
\* shown to the user.
C19_OptimisticKeptAndErrorShown ==
    [][\A c \in Clients : \A i \in Slots :
        (/\ Completes(c, i)
         /\ \/ muts[c][i].pc = "save_replied" /\ ~muts[c][i].ok
            \/ /\ muts[c][i].pc = "reload_replied"
               /\ muts[c][i].resp.status \in FailStatus)
        => /\ candles'[c] = candles[c]
           /\ error'[c] # ""]_vars

\* C20: when the GET of the initial load fails, the App leaves the loading
\* screen with an empty collection and an error message set.
C20_FailedInitialLoadWarns ==
    [][\A c \in Clients :
        (LoadInstalls(c) /\ initLoad[c].resp.status \in FailStatus)
        => /\ ~isLoading'[c]
           /\ candles'[c] = Arr(<< >>)
           /\ error'[c] # ""]_vars

\* C13: without a token a candle the client added in this session stays in
\* its local collection through every later step (poll ticks included)
\* unless the user removes it.
C13_AddedCandleStaysWithoutToken ==
    [][\A c \in Clients : \A id \in IdSpace :
        (/\ ~hasToken[c]
         /\ id \in assigned[c]
         /\ id \in Ids(candles[c].items)
         /\ ~(Starts(c) /\ Started(c).kind = "remove" /\ Started(c).arg.id = id))
        => id \in Ids(candles'[c].items)]_vars

\* C14: without a token saveCandles sends no PATCH and leaves the gist as it
\* is, and its caller learns of the failure: the handler ends through its
\* catch block, not through the end of its try block.
C14_NoTokenSaveFailsLoudly ==
    [][\A c \in Clients :
        ~hasToken[c] =>
            /\ remote' = remote
            /\ \A i \in 1..Len(muts'[c]) :
                  muts'[c][i].pc \notin {"save_sent", "save_replied"}
            /\ \A i \in Slots :
                  Completes(c, i) => muts[c][i].pc = "reload_replied"]_vars

\* C12: removeCandle called alone, with an id that neither the local
\* collection nor the gist holds, changes nothing: when it returns the local
\* collection, the gist's content and the error message are what they were
\* when it was called.
C12_RemoveMissingIsNoOp ==
    [][\A c \in Clients : \A i \in Slots :
        (Completes(c, i) /\ callBefore[c].called)
        => /\ candles'[c] = callBefore[c].local
           /\ remote' = callBefore[c].remote
           /\ error'[c] = callBefore[c].error]_vars

\* the polling loops of GistService that are alive: the timers that are
\* pending and the calls of poll awaiting their GET
Loops == Cardinality(timers) + Len(fetches)

\* a call of poll gets its response in this step
PollCompletes(i) ==
    /\ i \in 1..Len(fetches)
    /\ fetches[i].st = "replied"
    /\ fetches' = RemoveAt(fetches, i)

\* C15: whatever calls of startPolling and stopPolling were made, and whatever
\* polls have returned in between, at most one timer is pending or one GET
\* of poll is in flight.
C15_AtMostOneLoop == Loops <= 1

\* C16: once stopPolling has left no callback registered, and until
\* startPolling is called, no timer is pending, no poll sends a GET and a
\* poll that returns calls no callback; a stopPolling that leaves a callback
\* registered leaves the loop as it is.
C16_StoppedLoopIsSilent ==
    [][/\ pollingCallbacks' = {} => timers' = {}
       /\ (pollingCallbacks = {} /\ pollingCallbacks' = {})
            => /\ Len(fetches') <= Len(fetches)
               /\ \A i \in PollLoops : PollCompletes(i) => delivered'.to = {}
       /\ (pollingCallbacks' # {} /\ pollingCallbacks' # pollingCallbacks
              /\ pollingCallbacks' \subseteq pollingCallbacks)
            => /\ isPolling'
               /\ timers' = timers
               /\ fetches' = fetches]_vars

\* the collection loadCandles makes of a file's content
CollectionOf(f) ==
    IF f.kind \in {"absent", "empty"} THEN Arr(<< >>) ELSE JSONparse(f)

\* C17: a poll whose GET succeeds with content that parses and with an
\* updated_at other than the one observed last calls every registered
\* callback with the fetched collection, empty or not, and stores the new
\* updated_at.
C17_ChangeReachesEverySubscriber ==
    [][\A i \in PollLoops :
        (/\ PollCompletes(i)
         /\ fetches[i].resp.status = "ok"
         /\ ~JSONparseThrows(fetches[i].resp.file)
         /\ lastUpdated # 0
         /\ fetches[i].resp.updated # lastUpdated)
        => /\ delivered'.to = pollingCallbacks
           /\ delivered'.candles = CollectionOf(fetches[i].resp.file)
           /\ delivered'.updated = fetches[i].resp.updated
           /\ lastUpdated' = fetches[i].resp.updated]_vars

IssuesWrite(c, i) ==
    /\ At(c, i, "load_replied")
    /\ Len(muts'[c]) = Len(muts[c])
    /\ muts'[c][i].pc = "save_sent"

\* C23: a mutation whose re-fetch failed (fetch rejected, or a non-2xx
\* status) sends no PATCH: the step that follows the re-fetch neither
\* issues the write nor changes the gist's content.
C23_FailedRefetchWritesNothing ==
    [][\A c \in Clients : \A i \in Slots :
        (At(c, i, "load_replied") /\ muts[c][i].resp.status \in FailStatus)
        => /\ ~IssuesWrite(c, i)
           /\ remote' = remote]_vars

\* call i of pollForUpdates of client c gets its answer in this step
PollAnswered(c, i) ==
    /\ i \in 1..Len(polls[c])
    /\ polls[c][i].st = "replied"
    /\ polls'[c] = RemoveAt(polls[c], i)

\* C24: a poll whose GET failed (fetch rejected, or a non-2xx status) leaves
\* the local collection and the id counter as they were.
C24_FailedPollChangesNothing ==
    [][\A c \in Clients : \A i \in PollSlots :
        (PollAnswered(c, i) /\ polls[c][i].resp.status \in FailStatus)
        => /\ candles'[c] = candles[c]
           /\ nextId'[c] = nextId[c]]_vars

\* the PATCH of handler i of client c is answered with a 2xx in this step
WriteLands(c, i) ==
    /\ At(c, i, "save_sent")
    /\ Len(muts'[c]) = Len(muts[c])
    /\ muts'[c][i].pc = "save_replied"
    /\ muts'[c][i].ok

\* C22: a write replaces the gist's content by the writer's transform of the
\* content it fetched, whatever has been written since: a candle that another
\* client wrote between this client's re-fetch and its write, and that the
\* writer did not fetch, is not in the gist afterwards.
C22_WriteDropsWhatItDidNotFetch ==
    [][\A c \in Clients : \A i \in Slots :
        WriteLands(c, i) =>
            LET m == muts[c][i]
            IN  /\ remote' = JSONstringify(Transform(m.kind, m.arg, m.base))
                /\ \A k \in 1..Len(remote.items) :
                      (/\ writer # c
                       /\ remote.items[k].id \notin Ids(m.base)
                       /\ remote.items[k] # m.arg)
                      => \A j \in 1..Len(remote'.items) :
                            remote'.items[j] # remote.items[k]]_vars

\* both clients added a candle and both handlers returned without an error
\* and no request failed; client 1 wrote first, client 2 wrote last, and the
\* gist holds client 2's candle alone
C22_LostUpdate ==
    /\ muts = [c \in Clients |-> << >>]
    /\ error = [c \in Clients |-> ""]
    /\ failuresLeft = 0
    /\ mutationsLeft = 0
    /\ assigned = [c \in Clients |-> {1}]
    /\ writer = 2
    /\ candles[1] = Arr(<<Item(1, 10, 20, "")>>)
    /\ remote = ArrayText(<<Item(1, 30, 40, "")>>)

\* C26: in GistService, after every startPolling or stopPolling call, with or
\* without a callback argument and whether the callback is registered or not,
\* isPolling is true exactly when the set of callbacks is non-empty.
C26_PollingIffSubscribers == isPolling <=> pollingCallbacks # {}

\* startPolling has started a loop whose GET is still in flight, and a later
\* stopPolling call has emptied the set
C26_StoppedAfterStart ==
    /\ callsLeft <= MaxCalls - 2
    /\ Len(fetches) > 0
    /\ pollingCallbacks = {}
    /\ ~isPolling

\* C21: staleness is bounded by one polling interval.  Once the last handler
\* has started and while every request succeeds, at most one tick is
\* suppressed (a tick never finds the flag set again once it is clear), and
\* when the fetch of a tick that was not suppressed returns, the local
\* collection equals the gist's content.
C21_FreshAfterOnePoll ==
    [][/\ ~skipNextPoll[1] => ~skipNextPoll'[1]
       /\ \A i \in PollSlots :
             PollAnswered(1, i) => JSONstringify(candles'[1].items) = remote']_vars

\* the updated_at values the gist takes after its first
Revisions == 2..(MaxRevisions + 1)

\* C25: every change of the gist's updated_at that happens while callbacks
\* are registered is eventually delivered to the callbacks by a poll, as long
\* as polls keep succeeding and unless a later change supersedes it,
\* whatever loadCandles calls run between two polls: an updated_at that
\* GistService has not stored yet leads to a poll that hands it over.
C25_EveryChangeIsDelivered ==
    \A u \in Revisions :
        (updatedAt = u /\ lastUpdated # u /\ pollingCallbacks # {})
            ~> (delivered.updated = u \/ updatedAt # u)

====
